---- MODULE Spec2Model ----
(***************************************************************************)
(* Retrieval engine of backend/agents.py: class CompetitiveProgrammingSearch *)
(* (graph fetch, weighted embedding build, similarity ranking, search).     *)
(***************************************************************************)
EXTENDS Integers, Sequences, FiniteSets, TLC

VARIABLES
    graph,               \* content of the Neo4j store read by the fetch
    approach_embeddings, \* self.approach_embeddings
    pc,                  \* per call: position inside find_similar_approaches
    subtopics,           \* per call: argument subtopics
    query_text,          \* per call: argument query_text
    top_k,               \* per call: argument k
    questions_data,      \* per call: local questions_data
    pos,                 \* per call: index of the (approach, code) pair being encoded
    result,              \* per call: value returned by find_similar_approaches
    exc,                 \* per call: exception raised to the caller
    encode_log,          \* per call: history of self.model.encode invocations
    fetch_count,         \* per call: history, number of session.run invocations
    built_from,          \* history: questions_data of the latest started build
    build_done,          \* history: that build ran through its last pair
    rank_args,           \* arguments of the caller's latest direct fetch_related_approaches call
    rank_out             \* its return value

vars == <<graph, approach_embeddings, pc, subtopics, query_text, top_k,
          questions_data, pos, result, exc, encode_log, fetch_count,
          built_from, build_done, rank_args, rank_out>>

----------------------------------------------------------------------------
(* Bounds *)
MaxApproaches == 2
MaxTestCases == 2
MaxRecords == 3
MaxK == 3

----------------------------------------------------------------------------
(* Data *)
Calls == {1, 2}

ApproachTypes == <<"approached", "optimized", "improved">>

TypeSet == {ApproachTypes[i] : i \in 1..Len(ApproachTypes)}

Min(a, b) == IF a <= b THEN a ELSE b

AtLeastOne(n) == IF n = 0 THEN 1 ELSE n

RECURSIVE Flatten(_)
Flatten(ss) == IF ss = <<>> THEN <<>> ELSE Head(ss) \o Flatten(Tail(ss))

\* Words the stand-in encoder counts; a text is a sequence of tokens.
Vocab == <<"pointers", "sums">>

Sep == " "

RECURSIVE Count(_, _)
Count(text, w) ==
    IF text = <<>> THEN 0
    ELSE (IF Head(text) = w THEN 1 ELSE 0) + Count(Tail(text), w)

\* self.model.encode([text])[0]: a deterministic text -> fixed-width vector map.
Embed(text) == [i \in 1..Len(Vocab) |-> Count(text, Vocab[i])]

RECURSIVE DotFrom(_, _, _)
DotFrom(u, v, i) ==
    IF i > Len(u) THEN 0 ELSE u[i] * v[i] + DotFrom(u, v, i + 1)

\* np.dot(query_embedding, embedding_vector), vectors not normalised
Dot(u, v) == DotFrom(u, v, 1)

\* approach_types argument: None, or a collection of type names
NoFilter == [is_none |-> TRUE, types |-> {}]

Filter(T) == [is_none |-> FALSE, types |-> T]

----------------------------------------------------------------------------
(* fetch_related_approaches *)

\* Position at which list.sort(reverse=True) leaves an item that followed
\* the already sorted items in the input: after every item of greater or
\* equal similarity (the sort is stable).
\* Variant: an item overtakes the earlier items of equal similarity.
RECURSIVE InsertDesc_unstable(_, _)
InsertDesc_unstable(sorted, item) ==
    IF sorted = <<>> THEN <<item>>
    ELSE IF Head(sorted).similarity > item.similarity
         THEN <<Head(sorted)>> \o InsertDesc_unstable(Tail(sorted), item)
         ELSE <<item>> \o sorted

RECURSIVE InsertDesc(_, _)
InsertDesc(sorted, item) ==
    IF sorted = <<>> THEN <<item>>
    ELSE IF Head(sorted).similarity >= item.similarity
         THEN <<Head(sorted)>> \o InsertDesc(Tail(sorted), item)
         ELSE <<item>> \o sorted

RECURSIVE SortDescFrom(_, _, _)
SortDescFrom(items, i, acc) ==
    IF i > Len(items) THEN acc
    ELSE SortDescFrom(items, i + 1, InsertDesc(acc, items[i]))

SortDesc(items) == SortDescFrom(items, 1, <<>>)

\* Variant: the approach_types argument is ignored.
Passes_unfiltered(approach_data, approach_types) == TRUE

Passes(approach_data, approach_types) ==
    approach_types.is_none \/ approach_data.approach_type \in approach_types.types

RECURSIVE Relevant(_, _, _)
Relevant(embeddings, query_embedding, approach_types) ==
    IF embeddings = <<>> THEN <<>>
    ELSE LET approach_data == Head(embeddings)
             rest == Relevant(Tail(embeddings), query_embedding, approach_types)
         IN IF Passes(approach_data, approach_types)
            THEN <<[approach_data |-> approach_data,
                    similarity |-> Dot(query_embedding, approach_data.embedding)]>> \o rest
            ELSE rest

\* Variant: the slice stops one item early.
Truncate_short(items, k) == SubSeq(items, 1, Min(k - 1, Len(items)))

Truncate(items, k) == SubSeq(items, 1, Min(k, Len(items)))

fetch_related_approaches(embeddings, query_embedding, k, approach_types) ==
    IF embeddings = <<>> THEN <<>>
    ELSE Truncate(SortDesc(Relevant(embeddings, query_embedding, approach_types)), k)

----------------------------------------------------------------------------
(* Graph store and _fetch_questions_by_subtopics *)

Questions == <<[text |-> "Q1", file |-> "Array"], [text |-> "Q2", file |-> "Graphs"]>>

SubtopicChoices == {<<"Array">>, <<"Graphs">>, <<"Array", "Graphs">>, <<"NonexistentTag">>}

DescriptionOf(i) ==
    CASE i % 3 = 1 -> <<"two", "pointers">>
      [] i % 3 = 2 -> <<"prefix", "sums">>
      [] OTHER     -> <<"pointers", "and", "sums">>

\* A node is the dict .data() makes of it: the set of its property keys and
\* their values; id is the node's identity in the store.
ApproachNode(i, kind) ==
    [id |-> i,
     keys |-> CASE kind = "described" -> {"description"}
                [] kind = "empty" -> {"description"}
                [] kind = "nodescription" -> {"title"}
                [] OTHER -> {},
     description |-> IF kind = "described" THEN DescriptionOf(i) ELSE <<>>]

CodeNode(i) == [null |-> FALSE, id |-> i, keys |-> {"content"}, content |-> <<"sums">>]

NoCode == [null |-> TRUE, id |-> 0, keys |-> {}, content |-> <<>>]

\* <<properties of the Approach, has a HAS_CODE edge>>
ApproachKinds ==
    {<<"described", TRUE>>, <<"described", FALSE>>, <<"empty", TRUE>>,
     <<"empty", FALSE>>, <<"nodescription", TRUE>>, <<"noprops", TRUE>>}

Slots == 1..(Len(Questions) * Len(ApproachTypes))

SlotQuestion(s) == ((s - 1) \div Len(ApproachTypes)) + 1

SlotType(s) == ApproachTypes[((s - 1) % Len(ApproachTypes)) + 1]

Entry(i, slot, kind) ==
    [question |-> SlotQuestion(slot),
     category |-> SlotType(slot),
     node |-> ApproachNode(i, kind[1]),
     code |-> IF kind[2] THEN CodeNode(i) ELSE NoCode]

\* Stores with at most MaxApproaches Approach nodes, numbered in store order,
\* the nodes of the given kinds, every Question with t TestCases for a t in tcs.
GraphsOf(kinds, tcs) ==
    UNION {{[approaches |-> [i \in 1..m |-> Entry(i, slot[i], kind[i])],
             nTestCases |-> t, nConstraints |-> 0] :
               slot \in {f \in [1..m -> Slots] : \A a, b \in 1..m : a <= b => f[a] <= f[b]},
               kind \in [1..m -> kinds],
               t \in tcs} :
           m \in 0..MaxApproaches}

Graphs == GraphsOf(ApproachKinds, {0, MaxTestCases})

Each(s, inner) == Flatten([i \in 1..Len(s) |-> [j \in 1..inner |-> s[i]]])

Times(s, outer) == Flatten([i \in 1..outer |-> s])

\* collect(x) over the rows of one Question: the rows are the product of the
\* OPTIONAL MATCHes in query order, and collect drops nulls.
Collect(s, outer, inner) == Times(Each(s, inner), outer)

Related(g, qi, category) ==
    LET Is(e) == e.question = qi /\ e.category = category
    IN SelectSeq(g.approaches, Is)

Nodes(entries) == [i \in 1..Len(entries) |-> entries[i].node]

CodesOf(entries) ==
    LET HasCode(e) == ~e.code.null
        coded == SelectSeq(entries, HasCode)
    IN [i \in 1..Len(coded) |-> coded[i].code]

Bundle(g, qi) ==
    LET nT == AtLeastOne(g.nTestCases)
        nC == AtLeastOne(g.nConstraints)
        opt == Related(g, qi, "optimized")
        app == Related(g, qi, "approached")
        imp == Related(g, qi, "improved")
        nO == AtLeastOne(Len(opt))
        nA == AtLeastOne(Len(app))
        nI == AtLeastOne(Len(imp))
        optRows == Collect(opt, nT, nA * nC * nI)
        appRows == Collect(app, nT * nO, nC * nI)
        impRows == Collect(imp, nT * nO * nA * nC, 1)
    IN [q |-> [text |-> Questions[qi].text],
        optimizedApproaches |-> Nodes(optRows),
        approachedApproaches |-> Nodes(appRows),
        improvedApproaches |-> Nodes(impRows),
        optimizedCodes |-> CodesOf(optRows),
        approachedCodes |-> CodesOf(appRows),
        improvedCodes |-> CodesOf(impRows)]

Range(s) == {s[i] : i \in 1..Len(s)}

RECURSIVE FetchFrom(_, _, _)
FetchFrom(g, subs, qi) ==
    IF qi > Len(Questions) THEN <<>>
    ELSE (IF Questions[qi].file \in Range(subs) THEN <<Bundle(g, qi)>> ELSE <<>>)
         \o FetchFrom(g, subs, qi + 1)

_fetch_questions_by_subtopics(g, subs) == FetchFrom(g, subs, 1)

----------------------------------------------------------------------------
(* _create_weighted_embeddings *)

\* Variant: the guard tests the description rather than the node.
Truthy_described(d) == d.keys # {} /\ d.description # <<>>

\* if approach: a dict is true when it has at least one key
Truthy(d) == d.keys # {}

CodeTruthy(code) == ~code.null /\ code.keys # {}

Zip(xs, ys) == [i \in 1..Min(Len(xs), Len(ys)) |-> <<xs[i], ys[i]>>]

Pairs(q_data, category, approaches, codes) ==
    LET z == Zip(approaches, codes)
    IN [i \in 1..Len(z) |-> [question_id |-> q_data.q.text,
                             approach_type |-> category,
                             approach |-> z[i][1],
                             code |-> z[i][2]]]

\* Variant: the optimized block comes first.
BundlePairs_optimized_first(q_data) ==
    Pairs(q_data, "optimized", q_data.optimizedApproaches, q_data.optimizedCodes)
    \o Pairs(q_data, "approached", q_data.approachedApproaches, q_data.approachedCodes)
    \o Pairs(q_data, "improved", q_data.improvedApproaches, q_data.improvedCodes)

\* The (approach, code) pairs of one bundle in the order the loop body visits them.
BundlePairs(q_data) ==
    Pairs(q_data, "approached", q_data.approachedApproaches, q_data.approachedCodes)
    \o Pairs(q_data, "optimized", q_data.optimizedApproaches, q_data.optimizedCodes)
    \o Pairs(q_data, "improved", q_data.improvedApproaches, q_data.improvedCodes)

WorkList(qd) == Flatten([i \in 1..Len(qd) |-> BundlePairs(qd[i])])

\* " ".join(filter(None, parts))
RECURSIVE Join(_)
Join(parts) ==
    IF parts = <<>> THEN <<>>
    ELSE IF Head(parts) = <<>> THEN Join(Tail(parts))
    ELSE LET rest == Join(Tail(parts))
         IN IF rest = <<>> THEN Head(parts) ELSE Head(parts) \o <<Sep>> \o rest

\* approach['description'] / code['content'] on a dict without that key
KeyError(item) ==
    \/ "description" \notin item.approach.keys
    \/ CodeTruthy(item.code) /\ "content" \notin item.code.keys

approach_text(item) ==
    Join(<<item.approach.description>>
         \o (IF CodeTruthy(item.code) THEN <<item.code.content>> ELSE <<>>))

EmbeddingRecord(item) ==
    [question_id |-> item.question_id,
     approach_type |-> item.approach_type,
     embedding |-> Embed(approach_text(item)),
     approach_node |-> item.approach,
     code_node |-> item.code]

\* The list a run of _create_weighted_embeddings over qd leaves when no call
\* raises and nothing else touches self.approach_embeddings.
BuildAll(qd) ==
    LET Kept(item) == Truthy(item.approach)
        kept == SelectSeq(WorkList(qd), Kept)
    IN [i \in 1..Len(kept) |-> EmbeddingRecord(kept[i])]

\* First pair at or after index i that passes `if approach:`
RECURSIVE NextStop(_, _)
NextStop(work, i) ==
    IF i > Len(work) THEN i
    ELSE IF Truthy(work[i].approach) THEN i
    ELSE NextStop(work, i + 1)

----------------------------------------------------------------------------
(* find_similar_approaches, one action per stretch between blocking points *)

QueryTexts == {<<"sums">>, <<"pointers", "sums">>}

Candidate(text, index) == [kind |-> "candidate", text |-> text, index |-> index]

QueryCall(text) == [kind |-> "query", text |-> text, index |-> 0]

Results(similar_approaches_data) ==
    [i \in 1..Len(similar_approaches_data) |->
        [question_id |-> similar_approaches_data[i].approach_data.question_id,
         approach_node |-> similar_approaches_data[i].approach_data.approach_node,
         code_node |-> similar_approaches_data[i].approach_data.code_node,
         similarity_score |-> similar_approaches_data[i].similarity]]

\* No direct fetch_related_approaches call is outstanding.
NoArgs == [called |-> FALSE, query_embedding |-> <<0, 0>>, top_k |-> 0,
           approach_types |-> NoFilter]

\* The caller invokes search.find_similar_approaches(query_text, _, subtopics, k);
\* control reaches session.run and blocks.
Call(c, q, subs, k) ==
    /\ pc[c] = "idle"
    /\ pc' = [pc EXCEPT ![c] = "fetching"]
    /\ query_text' = [query_text EXCEPT ![c] = q]
    /\ subtopics' = [subtopics EXCEPT ![c] = subs]
    /\ top_k' = [top_k EXCEPT ![c] = k]
    /\ fetch_count' = [fetch_count EXCEPT ![c] = @ + 1]
    /\ rank_args' = NoArgs
    /\ rank_out' = <<>>
    /\ UNCHANGED <<graph, approach_embeddings, questions_data, pos, result, exc,
                   encode_log, built_from, build_done>>

\* The loop of _create_weighted_embeddings from pair i up to its next
\* self.model.encode call, or past the last pair to the encode of the query.
Proceed(c, work, i) ==
    LET s == NextStop(work, i)
    IN IF s > Len(work)
       THEN /\ pc' = [pc EXCEPT ![c] = "encoding_query"]
            /\ pos' = [pos EXCEPT ![c] = 0]
            /\ encode_log' = [encode_log EXCEPT ![c] = Append(@, QueryCall(query_text[c]))]
            /\ UNCHANGED exc
       ELSE IF KeyError(work[s])
       THEN /\ pc' = [pc EXCEPT ![c] = "raised"]
            /\ exc' = [exc EXCEPT ![c] = "KeyError"]
            /\ pos' = [pos EXCEPT ![c] = 0]
            /\ UNCHANGED encode_log
       ELSE /\ pc' = [pc EXCEPT ![c] = "encoding"]
            /\ pos' = [pos EXCEPT ![c] = s]
            /\ encode_log' = [encode_log EXCEPT ![c] = Append(@, Candidate(approach_text(work[s]), s))]
            /\ UNCHANGED exc

\* Variant: the empty fetch is not told apart.
HasQuestions_always(qd) == TRUE

\* if questions_data:
HasQuestions(qd) == qd # <<>>

\* Variant: the list of the previous build is kept.
FreshEmbeddings_kept(old) == old

\* self.approach_embeddings = []
FreshEmbeddings(old) == <<>>

\* session.run(...).data() returns.
FetchReturn(c) ==
    /\ pc[c] = "fetching"
    /\ LET qd == _fetch_questions_by_subtopics(graph, subtopics[c])
       IN /\ questions_data' = [questions_data EXCEPT ![c] = qd]
          /\ IF ~HasQuestions(qd)
             THEN /\ pc' = [pc EXCEPT ![c] = "returned"]
                  /\ result' = [result EXCEPT ![c] = <<>>]
                  /\ UNCHANGED <<approach_embeddings, pos, exc, encode_log,
                                 built_from, build_done>>
             ELSE /\ approach_embeddings' = FreshEmbeddings(approach_embeddings)
                  /\ built_from' = qd
                  /\ Proceed(c, WorkList(qd), 1)
                  /\ build_done' = (NextStop(WorkList(qd), 1) > Len(WorkList(qd)))
                  /\ UNCHANGED result
    /\ UNCHANGED <<graph, subtopics, query_text, top_k, fetch_count, rank_args, rank_out>>

\* session.run raises (connection or query failure).
FetchFail(c) ==
    /\ pc[c] = "fetching"
    /\ pc' = [pc EXCEPT ![c] = "raised"]
    /\ exc' = [exc EXCEPT ![c] = "StoreUnavailable"]
    /\ UNCHANGED <<graph, approach_embeddings, subtopics, query_text, top_k,
                   questions_data, pos, result, encode_log, fetch_count,
                   built_from, build_done, rank_args, rank_out>>

\* self.model.encode returns for a candidate text; the record is appended.
EncodeReturn(c) ==
    /\ pc[c] = "encoding"
    /\ LET work == WorkList(questions_data[c])
       IN /\ approach_embeddings' = Append(approach_embeddings, EmbeddingRecord(work[pos[c]]))
          /\ Proceed(c, work, pos[c] + 1)
          /\ build_done' = (build_done \/ NextStop(work, pos[c] + 1) > Len(work))
    /\ UNCHANGED <<graph, subtopics, query_text, top_k, questions_data, result,
                   fetch_count, built_from, rank_args, rank_out>>

\* Variant: the failure is swallowed and the records built so far are ranked.
EncodeFail_swallowed(c) ==
    /\ pc[c] = "encoding"
    /\ pc' = [pc EXCEPT ![c] = "returned"]
    /\ exc' = [exc EXCEPT ![c] = "EmbeddingFailure"]
    /\ result' = [result EXCEPT ![c] =
          Results(fetch_related_approaches(approach_embeddings, Embed(query_text[c]),
                                           top_k[c], [is_none |-> TRUE, types |-> {}]))]
    /\ UNCHANGED <<graph, approach_embeddings, subtopics, query_text, top_k,
                   questions_data, pos, encode_log, fetch_count,
                   built_from, build_done, rank_args, rank_out>>

\* self.model.encode raises for a candidate text.
EncodeFail(c) ==
    /\ pc[c] = "encoding"
    /\ pc' = [pc EXCEPT ![c] = "raised"]
    /\ exc' = [exc EXCEPT ![c] = "EmbeddingFailure"]
    /\ UNCHANGED <<graph, approach_embeddings, subtopics, query_text, top_k,
                   questions_data, pos, result, encode_log, fetch_count,
                   built_from, build_done, rank_args, rank_out>>

\* self.model.encode returns for the query text; ranking and result assembly.
QueryEncodeReturn(c) ==
    /\ pc[c] = "encoding_query"
    /\ LET query_embedding == Embed(query_text[c])
           similar_approaches_data ==
               fetch_related_approaches(approach_embeddings, query_embedding, top_k[c], NoFilter)
       IN result' = [result EXCEPT ![c] = Results(similar_approaches_data)]
    /\ pc' = [pc EXCEPT ![c] = "returned"]
    /\ UNCHANGED <<graph, approach_embeddings, subtopics, query_text, top_k,
                   questions_data, pos, exc, encode_log, fetch_count,
                   built_from, build_done, rank_args, rank_out>>

\* self.model.encode raises for the query text.
QueryEncodeFail(c) ==
    /\ pc[c] = "encoding_query"
    /\ pc' = [pc EXCEPT ![c] = "raised"]
    /\ exc' = [exc EXCEPT ![c] = "EmbeddingFailure"]
    /\ UNCHANGED <<graph, approach_embeddings, subtopics, query_text, top_k,
                   questions_data, pos, result, encode_log, fetch_count,
                   built_from, build_done, rank_args, rank_out>>

\* The caller has the return value or the exception; its frame is gone.
Finish(c) ==
    /\ pc[c] \in {"returned", "raised"}
    /\ pc' = [pc EXCEPT ![c] = "idle"]
    /\ subtopics' = [subtopics EXCEPT ![c] = <<>>]
    /\ query_text' = [query_text EXCEPT ![c] = <<>>]
    /\ top_k' = [top_k EXCEPT ![c] = 0]
    /\ questions_data' = [questions_data EXCEPT ![c] = <<>>]
    /\ result' = [result EXCEPT ![c] = <<>>]
    /\ exc' = [exc EXCEPT ![c] = "none"]
    /\ encode_log' = [encode_log EXCEPT ![c] = <<>>]
    /\ fetch_count' = [fetch_count EXCEPT ![c] = 0]
    /\ UNCHANGED <<graph, approach_embeddings, pos, built_from, build_done,
                   rank_args, rank_out>>

\* A caller invokes the public fetch_related_approaches directly.
Rank(query_embedding, k, approach_types) ==
    /\ \A c \in Calls : pc[c] = "idle"
    /\ rank_args' = [called |-> TRUE, query_embedding |-> query_embedding,
                     top_k |-> k, approach_types |-> approach_types]
    /\ rank_out' = fetch_related_approaches(approach_embeddings, query_embedding, k, approach_types)
    /\ UNCHANGED <<graph, approach_embeddings, pc, subtopics, query_text, top_k,
                   questions_data, pos, result, exc, encode_log, fetch_count,
                   built_from, build_done>>

----------------------------------------------------------------------------
(* Specifications *)

InitCalls ==
    /\ pc = [c \in Calls |-> "idle"]
    /\ subtopics = [c \in Calls |-> <<>>]
    /\ query_text = [c \in Calls |-> <<>>]
    /\ top_k = [c \in Calls |-> 0]
    /\ questions_data = [c \in Calls |-> <<>>]
    /\ pos = [c \in Calls |-> 0]
    /\ result = [c \in Calls |-> <<>>]
    /\ exc = [c \in Calls |-> "none"]
    /\ encode_log = [c \in Calls |-> <<>>]
    /\ fetch_count = [c \in Calls |-> 0]
    /\ built_from = <<>>
    /\ build_done = FALSE
    /\ rank_args = NoArgs
    /\ rank_out = <<>>

EmptyGraph == [approaches |-> <<>>, nTestCases |-> 0, nConstraints |-> 0]

\* Stores whose Approaches all have a description and a Code
EngineGraphs == GraphsOf({<<"described", TRUE>>}, {0})

\* --- the engine used by one caller at a time, any number of calls
Init ==
    /\ graph \in EngineGraphs
    /\ approach_embeddings = <<>>
    /\ InitCalls

Vectors == {<<1, 0>>, <<0, 1>>, <<1, 1>>}

FilterChoices == {NoFilter, Filter({}), Filter({"optimized"}), Filter({"approached", "improved"})}

Next ==
    \/ \E q \in QueryTexts, subs \in SubtopicChoices, k \in {1, MaxK} :
          /\ \A d \in Calls : pc[d] = "idle"
          /\ Call(1, q, subs, k)
    \/ \E c \in Calls : FetchReturn(c)
    \/ \E c \in Calls : FetchFail(c)
    \/ \E c \in Calls : EncodeReturn(c)
    \/ \E c \in Calls : EncodeFail(c)
    \/ \E c \in Calls : QueryEncodeReturn(c)
    \/ \E c \in Calls : QueryEncodeFail(c)
    \/ \E c \in Calls : Finish(c)
    \/ \E q \in Vectors, t \in {NoFilter, Filter({"optimized"})} : Rank(q, MaxK, t)

Spec == Init /\ [][Next]_vars

\* --- one search over any store
InitBuild ==
    /\ graph \in Graphs
    /\ approach_embeddings = <<>>
    /\ InitCalls

NextBuild ==
    \/ \E subs \in SubtopicChoices :
          /\ fetch_count[1] = 0
          /\ Call(1, <<"sums">>, subs, MaxK)
    \/ FetchReturn(1)
    \/ FetchFail(1)
    \/ EncodeReturn(1)
    \/ EncodeFail(1)
    \/ QueryEncodeReturn(1)
    \/ QueryEncodeFail(1)

SpecBuild == InitBuild /\ [][NextBuild]_vars

\* --- two searches in flight on the same engine
NextConc ==
    \/ \E c \in Calls, subs \in SubtopicChoices :
          /\ fetch_count[c] = 0
          /\ Call(c, <<"sums">>, subs, MaxK)
    \/ \E c \in Calls : FetchReturn(c)
    \/ \E c \in Calls : FetchFail(c)
    \/ \E c \in Calls : EncodeReturn(c)
    \/ \E c \in Calls : EncodeFail(c)
    \/ \E c \in Calls : QueryEncodeReturn(c)
    \/ \E c \in Calls : QueryEncodeFail(c)

SpecConc == Init /\ [][NextConc]_vars

\* --- fetch_related_approaches as a function of its inputs
RankRecord(i, t, v) ==
    [question_id |-> "Q1", approach_type |-> t, embedding |-> v,
     approach_node |-> ApproachNode(i, "described"), code_node |-> CodeNode(i)]

RecordLists ==
    UNION {{[i \in 1..n |-> RankRecord(i, ts[i], vs[i])] :
              ts \in [1..n -> TypeSet], vs \in [1..n -> Vectors]} : n \in 0..MaxRecords}

InitRank ==
    /\ graph = EmptyGraph
    /\ approach_embeddings \in RecordLists
    /\ InitCalls

NextRank ==
    \E q \in Vectors, k \in 1..MaxK, t \in FilterChoices :
        /\ ~rank_args.called
        /\ Rank(q, k, t)

SpecRank == InitRank /\ [][NextRank]_vars

TypeOK == pc \in [Calls -> {"idle", "fetching", "encoding", "encoding_query", "returned", "raised"}]

----------------------------------------------------------------------------
(* Properties of fetch_related_approaches, checked under SpecRank *)

Score(rec) == Dot(rank_args.query_embedding, rec.embedding)

Returned == {rank_out[i].approach_data : i \in 1..Len(rank_out)}

InFilter(rec) ==
    rank_args.approach_types.is_none \/ rec.approach_type \in rank_args.approach_types.types

Scored == {i \in 1..Len(approach_embeddings) : InFilter(approach_embeddings[i])}

\* C1: with no type filter and k >= 1, rank returns exactly min(k, len(records))
\* results: k of them when k <= len(records), all of them (never more) when
\* k > len(records), and none when records is empty.
C1_TruncationLength ==
    (rank_args.called /\ rank_args.approach_types.is_none) =>
        /\ Len(rank_out) = Min(rank_args.top_k, Len(approach_embeddings))
        /\ approach_embeddings = <<>> => rank_out = <<>>
        /\ \A i \in 1..Len(rank_out) :
              \E j \in 1..Len(approach_embeddings) :
                  rank_out[i].approach_data = approach_embeddings[j]

C1_Witness ==
    /\ rank_args.called
    /\ rank_args.approach_types.is_none
    /\ approach_embeddings # <<>>
    /\ rank_args.top_k > Len(approach_embeddings)
    /\ Len(rank_out) = Len(approach_embeddings)

\* C2: the returned sequence is ordered by non-increasing dot-product score,
\* each similarity is the dot product of the query and the record's embedding,
\* and two returned records of equal score keep the relative order they have
\* in the record list.
C2_OrderedStable ==
    rank_args.called =>
        /\ \A i \in 1..Len(rank_out) :
              rank_out[i].similarity = Score(rank_out[i].approach_data)
        /\ \A i, j \in 1..Len(rank_out) :
              i < j =>
                /\ rank_out[i].similarity >= rank_out[j].similarity
                /\ rank_out[i].similarity = rank_out[j].similarity =>
                      rank_out[i].approach_data.approach_node.id
                          < rank_out[j].approach_data.approach_node.id

C2_Witness ==
    /\ rank_args.called
    /\ Len(rank_out) = 3
    /\ rank_out[1].similarity > rank_out[2].similarity
    /\ rank_out[2].similarity = rank_out[3].similarity
    /\ rank_out[1].approach_data.approach_node.id = 3

\* C3: with a type filter T every result has its approach_type in T, the
\* number of results is min(k, number of records with type in T), and no
\* record with type in T that is left out outscores a returned one; with no
\* filter every record is scored.
C3_Filtering ==
    rank_args.called =>
        /\ \A i \in 1..Len(rank_out) : InFilter(rank_out[i].approach_data)
        /\ Len(rank_out) = Min(rank_args.top_k, Cardinality(Scored))
        /\ \A j \in Scored :
              approach_embeddings[j] \notin Returned =>
                  \A i \in 1..Len(rank_out) :
                      Score(approach_embeddings[j]) <= rank_out[i].similarity
        /\ rank_args.approach_types.is_none => Scored = 1..Len(approach_embeddings)

C3_Witness ==
    /\ rank_args.called
    /\ rank_args.approach_types = Filter({"optimized"})
    /\ Len(approach_embeddings) = 3
    /\ Cardinality(Scored) = 2
    /\ rank_args.top_k = 3
    /\ Len(rank_out) = 2
    /\ \E j \in 1..3 : /\ j \notin Scored
                       /\ Score(approach_embeddings[j]) > rank_out[1].similarity

----------------------------------------------------------------------------
(* Properties of find_similar_approaches, checked under Spec *)

\* C4: when the fetch of a search call returns no Question bundle, the call
\* returns the empty list and the embedding provider is invoked neither for a
\* candidate nor for the query text during that call.
C4_EmptyFetchNoEncode ==
    \A c \in Calls :
        /\ pc[c] \in {"encoding", "encoding_query", "returned"} =>
              questions_data[c] = _fetch_questions_by_subtopics(graph, subtopics[c])
        /\ pc[c] \in {"encoding", "encoding_query"} => questions_data[c] # <<>>
        /\ (pc[c] = "returned" /\ questions_data[c] = <<>>) =>
              (result[c] = <<>> /\ encode_log[c] = <<>>)

C4_Witness ==
    /\ pc[1] = "returned"
    /\ subtopics[1] = <<"NonexistentTag">>
    /\ questions_data[1] = <<>>
    /\ result[1] = <<>>
    /\ approach_embeddings # <<>>

\* C7: search is all-or-nothing: a failure of the fetch or of any provider
\* call is raised to the caller and no result list is returned; the fetch is
\* issued once per call and no provider call is issued twice (no retry); after
\* a fetch failure no provider call is made.
C7_AllOrNothing ==
    \A c \in Calls :
        /\ exc[c] # "none" => (pc[c] = "raised" /\ result[c] = <<>>)
        /\ pc[c] = "raised" => exc[c] # "none"
        /\ fetch_count[c] <= 1
        /\ exc[c] = "StoreUnavailable" => encode_log[c] = <<>>
        /\ \A n, m \in 1..Len(encode_log[c]) :
              n < m => encode_log[c][n].index # encode_log[c][m].index

C7_Witness ==
    /\ pc[1] = "raised"
    /\ exc[1] = "EmbeddingFailure"
    /\ Len(encode_log[1]) = 2
    /\ Len(approach_embeddings) = 1
    /\ result[1] = <<>>

IsPrefix(s, t) == Len(s) <= Len(t) /\ s = SubSeq(t, 1, Len(s))

AllIdle == \A c \in Calls : pc[c] = "idle"

\* C9 as stated: in every state where no search call is in progress the engine
\* holds no Embedding Records.
C9_DiscardedWhenIdle == AllIdle => approach_embeddings = <<>>

\* C9 as amended: the record set stays in the engine after the query that
\* built it completes and is reset only when a later search with a non-empty
\* fetch starts its build: the engine holds the records of the latest build
\* (all of them once that build has run through, a prefix before and after a
\* failure), an empty-fetch search leaves them in place, and a rank call made
\* after an earlier non-empty search ranks over that search's records.
C9_RetainedUntilNextBuild ==
    /\ IsPrefix(approach_embeddings, BuildAll(built_from))
    /\ build_done => approach_embeddings = BuildAll(built_from)
    /\ (rank_args.called /\ build_done) =>
          rank_out = fetch_related_approaches(BuildAll(built_from), rank_args.query_embedding,
                                              rank_args.top_k, rank_args.approach_types)

C9_Witness ==
    /\ AllIdle
    /\ build_done
    /\ approach_embeddings # <<>>
    /\ rank_args.called
    /\ rank_out # <<>>

----------------------------------------------------------------------------
(* Two searches in flight, checked under SpecConc *)

\* C8: each of two concurrent search calls ranks only over the Embedding
\* Record list built from its own fetched bundles.
C8_OwnRecordsOnly ==
    \A c \in Calls :
        (pc[c] = "returned" /\ questions_data[c] # <<>>) =>
            result[c] = Results(fetch_related_approaches(BuildAll(questions_data[c]),
                                    Embed(query_text[c]), top_k[c], NoFilter))

----------------------------------------------------------------------------
(* Properties of _create_weighted_embeddings, checked under SpecBuild *)

BuildComplete == pc[1] \in {"encoding_query", "returned"} /\ questions_data[1] # <<>>

Work == WorkList(questions_data[1])

RecordsOf(node) ==
    {i \in 1..Len(approach_embeddings) : approach_embeddings[i].approach_node = node}

\* C5 as stated: no record in the built list refers to an Approach whose
\* description is empty or absent.
C5_NoRecordWithoutDescription ==
    \A i \in 1..Len(approach_embeddings) :
        /\ "description" \in approach_embeddings[i].approach_node.keys
        /\ approach_embeddings[i].approach_node.description # <<>>

\* C5 as amended: an Approach without a description property never yields a
\* record (a node with no properties is skipped, one with other properties
\* makes build raise KeyError); an Approach whose description is the empty
\* string and which is paired with a Code does yield a record, and its
\* embedding is that of the Code content alone.
C5_EmptyDescriptionEmbedsCode ==
    /\ \A i \in 1..Len(approach_embeddings) :
          /\ "description" \in approach_embeddings[i].approach_node.keys
          /\ approach_embeddings[i].approach_node.description = <<>> =>
                approach_embeddings[i].embedding
                    = Embed(approach_embeddings[i].code_node.content)
    /\ BuildComplete =>
          LET work == Work
          IN \A j \in 1..Len(work) :
                 work[j].approach.keys # {} =>
                     \E i \in RecordsOf(work[j].approach) :
                         approach_embeddings[i].code_node = work[j].code
    /\ exc[1] = "KeyError" =>
          LET work == Work
          IN \E j \in 1..Len(work) :
                 work[j].approach.keys # {} /\ "description" \notin work[j].approach.keys

C5_Witness ==
    /\ BuildComplete
    /\ \E i \in 1..Len(approach_embeddings) :
          /\ approach_embeddings[i].approach_node.description = <<>>
          /\ approach_embeddings[i].embedding = <<0, 1>>

Fetched(e) == Questions[e.question].file \in Range(subtopics[1])

\* C6: for every Approach with a non-empty description present in a bundle,
\* in any category, build produces exactly one record, tagged with that
\* category, whose code_node is that Approach's own Code node or absent when it
\* has none, also when some approaches of the category have no Code.
C6_OneRecordPerApproach ==
    BuildComplete =>
        \A n \in 1..Len(graph.approaches) :
            LET e == graph.approaches[n]
            IN (Fetched(e) /\ "description" \in e.node.keys /\ e.node.description # <<>>) =>
                  /\ Cardinality(RecordsOf(e.node)) = 1
                  /\ \A i \in RecordsOf(e.node) :
                        /\ approach_embeddings[i].approach_type = e.category
                        /\ approach_embeddings[i].code_node = e.code

TypeIndex(t) == CHOOSE i \in 1..Len(ApproachTypes) : ApproachTypes[i] = t

CandidateCalls == SelectSeq(encode_log[1], LAMBDA x : x.kind = "candidate")

\* C10 as stated: the provider calls of build are ordered all approached, then
\* all optimized, then all improved, over the whole bundle list.
C10_CategoryOrderAcrossBundles ==
    LET work == Work
        calls == CandidateCalls
    IN \A n, m \in 1..Len(calls) :
           n < m => TypeIndex(work[calls[n].index].approach_type)
                       <= TypeIndex(work[calls[m].index].approach_type)

BundleIndex(qd, item) == CHOOSE b \in 1..Len(qd) : qd[b].q.text = item.question_id

ListOf(q_data, t) ==
    CASE t = "approached" -> <<q_data.approachedApproaches, q_data.approachedCodes>>
      [] t = "optimized" -> <<q_data.optimizedApproaches, q_data.optimizedCodes>>
      [] OTHER -> <<q_data.improvedApproaches, q_data.improvedCodes>>

\* <<bundle, category>> of a pair, as numbers
GroupOf(qd, item) == <<BundleIndex(qd, item), TypeIndex(item.approach_type)>>

\* C10 as amended: build takes the bundles in the order the gateway returned
\* them and, within each bundle, issues its provider calls for the approached
\* pairs, then the optimized, then the improved, each category in gateway
\* order, so that with more than one Question the categories of different
\* Questions interleave; each (approach, code) pair with a non-empty approach
\* has its text passed to the provider exactly once, and the records are
\* appended in the order of the calls.
C10_CategoryOrderPerBundle ==
    LET qd == questions_data[1]
        work == Work
        calls == CandidateCalls
        group == [j \in 1..Len(work) |-> GroupOf(qd, work[j])]
        place == [j \in 1..Len(work) |-> Cardinality({i \in 1..j : group[i] = group[j]})]
    IN /\ \A n \in 1..Len(calls) :
             /\ n > 1 => calls[n - 1].index < calls[n].index
             /\ work[calls[n].index].approach.keys # {}
             /\ calls[n].text = approach_text(work[calls[n].index])
       /\ \A j \in 1..Len(work) :
             /\ j > 1 =>
                  \/ group[j - 1][1] < group[j][1]
                  \/ group[j - 1][1] = group[j][1] /\ group[j - 1][2] <= group[j][2]
             /\ LET lists == ListOf(qd[group[j][1]], work[j].approach_type)
                IN /\ work[j].approach = lists[1][place[j]]
                   /\ work[j].code = lists[2][place[j]]
       /\ BuildComplete =>
             {calls[n].index : n \in 1..Len(calls)}
                 = {j \in 1..Len(work) : work[j].approach.keys # {}}
       /\ Len(approach_embeddings) <= Len(calls)
       /\ \A n \in 1..Len(approach_embeddings) :
             approach_embeddings[n].approach_node = work[calls[n].index].approach

C10_Witness ==
    LET work == Work
        calls == CandidateCalls
    IN /\ BuildComplete
       /\ Len(questions_data[1]) = 2
       /\ Len(calls) = 2
       /\ work[calls[1].index].approach_type = "optimized"
       /\ work[calls[2].index].approach_type = "approached"
       /\ Len(approach_embeddings) = 2

====
